---- MODULE Spec2Model ----
(***************************************************************************)
(* AnnoyScript (annoy.py): the block parser and the depth-sensitive tape   *)
(* machine.  Texts (the source file, literals) are sequences of            *)
(* one-character strings, indexed from 0 as in Python through At and       *)
(* Slice.  The interpreter's recursion (run -> execute_block ->            *)
(* execute_literal) is unfolded into an explicit call stack, one action    *)
(* per operation of a literal and per entry / exit of a Block.             *)
(***************************************************************************)
EXTENDS Integers, Sequences, FiniteSets, TLC

(***************************************************************************)
(* Python helpers on texts                                                 *)
(***************************************************************************)

\* source[i] with Python's 0-based index
At(s, i) == s[i + 1]

Min(a, b) == IF a < b THEN a ELSE b

\* source[a:b] (0 <= a <= b), clipped at the end of the text as Python does
Slice(s, a, b) == SubSeq(s, a + 1, Min(b, Len(s)))

\* str.isspace() on the characters of the modelled alphabet
isspace(ch) == ch \in {" ", "\n", "\t"}

(***************************************************************************)
(* strip_comments (annoy.py 8-20)                                          *)
(***************************************************************************)

\* the positions (from 1) of the line boundaries of s
newlines(s) == { k \in 1..Len(s) : s[k] = "\n" }

\* str.splitlines(), "\n" being the only line boundary of the alphabet: the
\* lines ended by a boundary, then what follows the last boundary unless it
\* is empty
splitlines(s) ==
    LET count == Cardinality(newlines(s))
        boundary(n) ==
            IF n = 0 THEN 0
            ELSE CHOOSE k \in newlines(s) :
                     Cardinality({ j \in newlines(s) : j < k }) = n - 1
        ended == [n \in 1..count |->
                     SubSeq(s, boundary(n - 1) + 1, boundary(n) - 1)]
        rest == SubSeq(s, boundary(count) + 1, Len(s))
    IN  IF rest = <<>> THEN ended ELSE Append(ended, rest)

\* line.find(';'): the first index of ";" or -1
find_semicolon(line) ==
    IF \E i \in 0..(Len(line) - 1) : At(line, i) = ";"
    THEN CHOOSE i \in 0..(Len(line) - 1) :
            /\ At(line, i) = ";"
            /\ \A j \in 0..(i - 1) : At(line, j) # ";"
    ELSE -1

cut_comment(line) ==
    LET semicolon_index == find_semicolon(line)
    IN  IF semicolon_index # -1 THEN Slice(line, 0, semicolon_index) ELSE line

RECURSIVE join_newline(_)
join_newline(lines) ==
    IF lines = <<>> THEN <<>>
    ELSE IF Len(lines) = 1 THEN lines[1]
    ELSE lines[1] \o <<"\n">> \o join_newline(Tail(lines))

strip_comments(s) ==
    LET lines == splitlines(s)
        new_lines == [k \in 1..Len(lines) |-> cut_comment(lines[k])]
    IN  join_newline(new_lines)

(***************************************************************************)
(* Block (annoy.py 26-36) and the parser (annoy.py 42-110)                 *)
(***************************************************************************)

\* placeholder in the block field of a literal item / of a failed parse
NoBlock == [block_type |-> "none", items |-> <<>>]

\* Block(block_type, items)
Block(block_type, items) == [block_type |-> block_type, items |-> items]

\* the two kinds of item of a Block: a literal string, a nested Block
StrItem(literal) == [type |-> "str", str |-> literal, block |-> NoBlock]
BlockItem(b) == [type |-> "Block", str |-> <<>>, block |-> b]

NoError == [msg |-> "", index |-> -1]

\* raise Exception(msg ... index)
Raise(msg, index) ==
    [ok |-> FALSE, block |-> NoBlock, index |-> index,
     error |-> [msg |-> msg, index |-> index]]

\* return Block(block_type, items), index
Return(b, index) == [ok |-> TRUE, block |-> b, index |-> index, error |-> NoError]

\* faulty variant of flush: the buffer is appended even when it is empty
flush_always(items, literal_buffer) == Append(items, StrItem(literal_buffer))

\* faulty variant of flush: the pending literal is forgotten
flush_drop(items, literal_buffer) == items

\* append literal_buffer to items when it is not empty (annoy.py 90-92, 99-101)
flush(items, literal_buffer) ==
    IF literal_buffer # <<>> THEN Append(items, StrItem(literal_buffer)) ELSE items

\* the while loop of parse_block at index does something other than buffer
\* the character: the input has ended, the closing token is next, or a nested
\* Block begins (annoy.py 87-97)
loop_stops(source, index, closing_token) ==
    \/ index >= Len(source)
    \/ Slice(source, index, index + 2) = closing_token
    \/ /\ At(source, index) = "("
       /\ index + 1 < Len(source)
       /\ At(source, index + 1) \in {"<", "?"}

\* the index the loop reaches by buffering characters from index on
\* (annoy.py 106-108, as often as neither test of the loop applies)
buffered_until(source, index, closing_token) ==
    CHOOSE j \in index..Len(source) :
        /\ loop_stops(source, j, closing_token)
        /\ \A k \in index..(j - 1) : ~loop_stops(source, k, closing_token)

RECURSIVE parse_block(_, _)
RECURSIVE parse_block_loop(_, _, _, _, _, _)

\* the while loop of parse_block (annoy.py 87-110)
parse_block_loop(source, index, block_type, closing_token, items, literal_buffer) ==
    IF index >= Len(source)
    THEN Raise("Missing closing token", index)
    ELSE IF Slice(source, index, index + 2) = closing_token
    THEN Return(Block(block_type, flush(items, literal_buffer)), index + 2)
    ELSE IF /\ At(source, index) = "("
            /\ index + 1 < Len(source)
            /\ At(source, index + 1) \in {"<", "?"}
    THEN LET nested == parse_block(source, index)
         IN  IF ~nested.ok THEN nested
             ELSE parse_block_loop(source, nested.index, block_type, closing_token,
                                   Append(flush(items, literal_buffer),
                                          BlockItem(nested.block)),
                                   <<>>)
    ELSE LET next == buffered_until(source, index, closing_token)
         IN  parse_block_loop(source, next, block_type, closing_token, items,
                              literal_buffer \o Slice(source, index, next))

\* parse_block (annoy.py 58-110)
parse_block(source, index) ==
    IF index >= Len(source) \/ At(source, index) # "("
    THEN Raise("Expected '('", index)
    ELSE IF index + 1 >= Len(source)
    THEN Raise("Unexpected end of input after '('", index + 1)
    ELSE IF At(source, index + 1) = "<"
    THEN parse_block_loop(source, index + 2, "normal", <<">", ")">>, <<>>, <<>>)
    ELSE IF At(source, index + 1) = "?"
    THEN parse_block_loop(source, index + 2, "conditional", <<"?", ")">>, <<>>, <<>>)
    ELSE Raise("Invalid token after '('", index + 1)

RECURSIVE parse_program_loop(_, _, _)
\* the while loop of parse_program (annoy.py 46-56)
parse_program_loop(source, index, blocks) ==
    IF index >= Len(source)
    THEN [ok |-> TRUE, blocks |-> blocks, error |-> NoError]
    ELSE IF isspace(At(source, index))
    THEN parse_program_loop(source, index + 1, blocks)
    ELSE IF At(source, index) = "("
    THEN LET r == parse_block(source, index)
         IN  IF ~r.ok THEN [ok |-> FALSE, blocks |-> <<>>, error |-> r.error]
             ELSE parse_program_loop(source, r.index, Append(blocks, r.block))
    ELSE [ok |-> FALSE, blocks |-> <<>>,
          error |-> [msg |-> "Unexpected character at top level", index |-> index]]

\* parse_program (annoy.py 42-56)
parse_program(source) == parse_program_loop(source, 0, <<>>)

(***************************************************************************)
(* Interpreter: pure parts (annoy.py 162-237)                              *)
(***************************************************************************)

\* number of tape cells, [0] * 128
TapeSize == 128

\* cells are 8-bit unsigned, arithmetic wraps at 256
CellModulus == 256

\* printable range accepted by '.'
PrintableMin == 32
PrintableMax == 126

RECURSIVE run_end(_, _, _)
\* the index just past the run of ch that starts before j (annoy.py 174-177)
run_end(literal, ch, j) ==
    IF j < Len(literal) /\ At(literal, j) = ch
    THEN run_end(literal, ch, j + 1)
    ELSE j

\* faulty variant of run_step: the nesting depth is ignored
run_step_nodepth(ch, depth, k) == IF ch = "+" THEN k ELSE -k

\* the signed step k of one character of a run (annoy.py 180-184)
run_step(ch, depth, k) ==
    IF ch = "+"
    THEN (IF depth % 2 = 0 THEN k ELSE -k)
    ELSE -(IF depth % 2 = 0 THEN k ELSE -k)

RECURSIVE run_effect(_, _, _, _)
\* effect after the steps k..count of the for loop (annoy.py 178-184)
run_effect(ch, depth, k, count) ==
    IF k > count THEN 0
    ELSE run_step(ch, depth, k) + run_effect(ch, depth, k + 1, count)

\* faulty variant of cell_after_run: the sum is stored without wrapping
cell_after_run_nowrap(cell, ch, depth, count) ==
    cell + run_effect(ch, depth, 1, count)

\* the cell after a '+' / '-' run of count characters (annoy.py 185)
cell_after_run(cell, ch, depth, count) ==
    (cell + run_effect(ch, depth, 1, count)) % CellModulus

\* the override contribution of one '^' or 'v' (annoy.py 189-194)
override_step(ch, depth) ==
    IF ch = "^"
    THEN (IF depth % 2 = 0 THEN 1 ELSE -1)
    ELSE (IF depth % 2 = 0 THEN -1 ELSE 1)

\* faulty variant of not_printable: only the lower end is tested
not_printable_lower_only(value) == value < PrintableMin

\* value < 32 or value > 126 (annoy.py 199)
not_printable(value) == value < PrintableMin \/ value > PrintableMax

\* faulty variant of cell_after_input: the code point is stored as it is
cell_after_input_nomod(inp) == inp

\* ord(inp) % 256 (annoy.py 209); characters of stdin are their code points
cell_after_input(inp) == inp % CellModulus

\* faulty variant of apply_pointer_movement: an override is added without
\* wrapping
apply_pointer_movement_nowrap(ptr, counter, override) ==
    IF override # 0
    THEN ptr + override
    ELSE IF counter % 2 = 1
         THEN (ptr - 1) % TapeSize
         ELSE (ptr + 1) % TapeSize

\* faulty variant of apply_pointer_movement: left and right are exchanged
apply_pointer_movement_swapped(ptr, counter, override) ==
    IF override # 0
    THEN (ptr + override) % TapeSize
    ELSE IF counter % 2 = 1
         THEN (ptr + 1) % TapeSize
         ELSE (ptr - 1) % TapeSize

\* faulty variant of apply_pointer_movement: the default step ignores the
\* parity of the counter and always goes right
apply_pointer_movement_right(ptr, counter, override) ==
    IF override # 0
    THEN (ptr + override) % TapeSize
    ELSE (ptr + 1) % TapeSize

\* apply_pointer_movement (annoy.py 222-237): the new pointer
apply_pointer_movement(ptr, counter, override) ==
    IF override # 0
    THEN (ptr + override) % TapeSize
    ELSE IF counter % 2 = 1
         THEN (ptr - 1) % TapeSize
         ELSE (ptr + 1) % TapeSize

RECURSIVE parsed_before_error(_, _, _)
\* the top-level Blocks parse_program had completed when it stopped
parsed_before_error(source, index, blocks) ==
    IF index >= Len(source) THEN blocks
    ELSE IF isspace(At(source, index))
    THEN parsed_before_error(source, index + 1, blocks)
    ELSE IF At(source, index) = "("
    THEN LET r == parse_block(source, index)
         IN  IF ~r.ok THEN blocks
             ELSE parsed_before_error(source, r.index, Append(blocks, r.block))
    ELSE blocks

\* faulty variant of main_parse: after a parse error the Blocks parsed so far
\* are run
main_parse_partial(src) ==
    LET r == parse_program(src)
    IN  IF r.ok
        THEN [pc |-> "run", blocks |-> r.blocks, error |-> NoError]
        ELSE [pc |-> "run", blocks |-> parsed_before_error(src, 0, <<>>),
              error |-> r.error]

\* blocks = parse_program(source), then run or "Parse Error" (annoy.py 257-263)
main_parse(src) ==
    LET r == parse_program(src)
    IN  IF r.ok
        THEN [pc |-> "run", blocks |-> r.blocks, error |-> NoError]
        ELSE [pc |-> "parse_error", blocks |-> <<>>, error |-> r.error]

(***************************************************************************)
(* The run of main (annoy.py 243-268) as a state machine                   *)
(***************************************************************************)

VARIABLES
    pc,                   \* where main is: "start", "run", "done", "parse_error", "runtime_error"
    source,               \* main's source: the file's text, then the stripped text
    stdin,                \* characters (code points) not yet read from sys.stdin
    stdout,               \* characters (code points) written by sys.stdout.write
    blocks,               \* interpreter.blocks
    tape,                 \* interpreter.tape
    pointer,              \* interpreter.pointer
    instruction_counter,  \* interpreter.instruction_counter
    block_index,          \* position of run()'s for loop in self.blocks
    stack,                \* the active execute_block calls, outermost first
    error,                \* the exception main caught, NoError when none
    visited               \* history: number of execute_block calls made so far

vars == <<pc, source, stdin, stdout, blocks, tape, pointer, instruction_counter,
          block_index, stack, error, visited>>

\* the locals of one execute_block call; i and pointer_override are those of
\* the execute_literal call in progress on the current item
Frame(b, depth) ==
    [block |-> b, depth |-> depth, item |-> 0, block_pointer_override |-> 0,
     i |-> 0, pointer_override |-> 0]

Top == stack[Len(stack)]

SetTop(stk, f) == [stk EXCEPT ![Len(stk)] = f]

\* faulty variant of Pop: the returning call's override total is added to
\* its caller's
Pop_leak(stk) ==
    LET rest == SubSeq(stk, 1, Len(stk) - 1)
    IN  IF rest = <<>> THEN rest
        ELSE [rest EXCEPT ![Len(rest)].block_pointer_override =
                              @ + stk[Len(stk)].block_pointer_override]

\* the stack after the innermost execute_block call returned (annoy.py 160)
Pop(stk) == SubSeq(stk, 1, Len(stk) - 1)

Items(f) == f.block.items

\* the for loop of execute_block is at an item (annoy.py 146)
AtItem(f) == f.item < Len(Items(f))

\* faulty variant of CurItem: the items are taken from the right
CurItem_reversed(f) == Items(f)[Len(Items(f)) - f.item]

CurItem(f) == Items(f)[f.item + 1]

\* execute_literal is running on the current item of the innermost call
InLiteral ==
    /\ pc = "run"
    /\ stack # <<>>
    /\ AtItem(Top)
    /\ CurItem(Top).type = "str"

CurLiteral == CurItem(Top).str

\* the while loop of execute_literal is at character ch (annoy.py 169-170)
AtOp == InLiteral /\ Top.i < Len(CurLiteral)

OpChar == At(CurLiteral, Top.i)

\* an execute_block call is about to be made: by run() (annoy.py 126) or by
\* the item loop of the innermost call (annoy.py 153)
Calling ==
    /\ pc = "run"
    /\ IF stack = <<>>
       THEN block_index < Len(blocks)
       ELSE AtItem(Top) /\ CurItem(Top).type = "Block"

Callee == IF stack = <<>> THEN blocks[block_index + 1] ELSE CurItem(Top).block

CalleeDepth == IF stack = <<>> THEN 0 ELSE Top.depth + 1

\* faulty variant of GuardFalse: the test of the cell is inverted
GuardFalse_inverted(b, cell) == b.block_type = "conditional" /\ cell # 0

\* the condition of a Conditional is false (annoy.py 134-135)
GuardFalse(b, cell) == b.block_type = "conditional" /\ cell = 0

\* faulty variant of ReturnStack: the caller's item loop does not move on
ReturnStack_stay(stk) == stk

\* the caller's loop moves on after execute_block returned: the stack left to
\* the caller, and run()'s loop position
ReturnStack(stk) ==
    IF stk = <<>> THEN stk ELSE SetTop(stk, [stk[Len(stk)] EXCEPT !.item = @ + 1])

ReturnIndex(stk) == IF stk = <<>> THEN block_index + 1 ELSE block_index

\* faulty variant of after_literal: a Conditional whose cell has become 0
\* gives up the rest of its items
after_literal_abandon(f) ==
    IF f.block.block_type = "conditional" /\ tape[pointer] = 0
    THEN [f EXCEPT !.item = Len(f.block.items), !.i = 0, !.pointer_override = 0]
    ELSE [f EXCEPT !.block_pointer_override = @ + f.pointer_override,
                   !.item = @ + 1, !.i = 0, !.pointer_override = 0]

\* the frame after execute_literal returned pointer_override (annoy.py 149-150)
after_literal(f) ==
    [f EXCEPT !.block_pointer_override = @ + f.pointer_override,
              !.item = @ + 1, !.i = 0, !.pointer_override = 0]

\* faulty variant of RaiseRuntime: the error is dropped and the literal goes on
RaiseRuntime_swallow(msg) ==
    /\ pc' = pc
    /\ error' = error
    /\ stack' = SetTop(stack, [Top EXCEPT !.i = @ + 1])

\* raise Exception(...) inside run(): caught by main (annoy.py 266-268)
RaiseRuntime(msg) ==
    /\ pc' = "runtime_error"
    /\ error' = [msg |-> msg, index |-> -1]
    /\ stack' = <<>>

(***************************************************************************)
(* The source files and input streams the runs are started on              *)
(***************************************************************************)

\* longest source of TokenSources, in tokens
MaxTokens == 3
\* longest '+' / '-' run of RunSources
MaxRun == 24
\* how far the '^' / 'v' counts of OverrideSources go past TapeSize
MaxExcess == 2
\* longest input stream
MaxInput == 2

Rep(c, n) == [k \in 1..n |-> c]

RECURSIVE Flatten(_)
\* the concatenation of a sequence of texts
Flatten(texts) == IF texts = <<>> THEN <<>> ELSE Head(texts) \o Flatten(Tail(texts))

RECURSIVE Nest(_, _)
\* text wrapped in n Normal blocks
Nest(text, n) ==
    IF n = 0 THEN text ELSE <<"(", "<">> \o Nest(text, n - 1) \o <<">", ")">>

Opener(kind) == IF kind = "normal" THEN <<"(", "<">> ELSE <<"(", "?">>
Closer(kind) == IF kind = "normal" THEN <<">", ")">> ELSE <<"?", ")">>
Wrap(kind, text) == Opener(kind) \o text \o Closer(kind)

Kinds == {"normal", "conditional"}

Tokens ==
    { <<"(", "<">>, <<">", ")">>, <<"(", "?">>, <<"?", ")">>, <<"(">>,
      <<"+">>, <<"^">>, <<".">>, <<" ">>, <<"x">> }

\* every concatenation of at most MaxTokens tokens, well formed or not
TokenSources ==
    UNION { { Flatten(ts) : ts \in [1..n -> Tokens] } : n \in 0..MaxTokens }

\* two runs and an output at depth 0, 1 and 2
RunSources ==
    { Nest(Rep(a, n) \o <<" ">> \o Rep(b, m) \o <<".">>, d + 1) :
        a \in {"+", "-"}, b \in {"+", "-"}, n \in 1..MaxRun, m \in {1, 8, MaxRun},
        d \in 0..2 }

OverrideCounts == 1..2 \cup ((TapeSize - 1)..(TapeSize + MaxExcess))

\* one kind of override, many times, at depth 0 and 1
OverrideSources ==
    { Nest(Rep(c, n), d + 1) : c \in {"^", "v"}, n \in OverrideCounts, d \in 0..1 }

OuterLiterals == { <<>>, <<"+">>, <<"-">>, <<"^">>, <<"v">>, <<"+", "^", "^">> }

InnerLiterals ==
    { <<>>, <<"+">>, <<"-", "-">>, <<"^">>, <<"v">>, <<"^", "v">>, <<"v", "v", "^">>,
      <<".">>, <<",">>, <<",", ".">>, <<"#">>, <<"x">>, <<"+", "\n", "+">>,
      <<"+", "+", "+", "+", "+", "+", "+", "+", ".">> }

InnerItems ==
    InnerLiterals
    \cup { Wrap(k, l) : k \in Kinds,
                        l \in { <<"^">>, <<"v", "v">>, <<"-">>, <<".">>, <<"x">> } }

\* a Block holding a literal, a Block and a literal, the nested Block holding
\* a literal or a third Block
NestedSources ==
    { Wrap(k1, l1 \o Wrap(k2, m) \o l3) :
        k1 \in Kinds, k2 \in Kinds, l1 \in OuterLiterals, l3 \in OuterLiterals,
        m \in InnerItems }

\* a first Block that leaves cell 0 at 1 and a second that brings the pointer
\* back to it, then a top-level Block
SequenceSources ==
    { <<"(", "<", "+", ">", ")", "(", "<", ">", ")", " ">> \o Wrap(k, m)
        \o <<"\n">> \o tail :
        k \in Kinds, m \in InnerItems,
        tail \in { <<>>, <<"(", "?", ".", "?", ")">>, <<"(", "<", "+">>, <<"x">> } }

\* the scenarios of the language description, and comments
ScenarioSources ==
    { <<"(", "<", " ">> \o Rep("+", 8) \o <<" ", ".", " ", ">", ")">>,
      <<"(", "<", " ", ">", ")", "(", "<", " ", ">", ")">>,
      <<"(", "<", " ", "#", " ", ".", " ", ">", ")">>,
      <<"(", "?", " ">> \o Rep("+", 10) \o <<" ", "?", ")">>,
      <<"(", "<", "+", ";", ">", ")", "\n", "+", ">", ")", ";", "x">>,
      <<";", "(", "<", "\n", "(", "<", "-", ";", "\n", ">", ")", "\n">>,
      <<"(", "<", "+", ">", ")", ";", "\n", "(", "<", ";", ">", ")">>,
      <<"(", "<", " ">> \o Rep("+", 8) \o <<" ", ".", " ", "#", " ", ".", " ", ">", ")",
                                           "(", "<", " ", "+", " ", ">", ")">>,
      <<"(", "<", "+", "(", "?", "+", "^", "(", "<", "-", ">", ")", "-", "?", ")",
        ">", ")">>,
      <<"(", "<">> \o Rep("+", 8) \o <<".", "(", "<", "-", ".", ">", ")">>
          \o Rep("+", 9) \o <<".", ">", ")", "(", "<", ".", ">", ")">>,
      <<"(", "<", ",", ",", ".", ">", ")">>,
      <<"(", "<", ">", ")", "(", "<", "+", "(", "<", "-", ".", ">", ")", ">", ")">> }

\* outputs at and around the ends of the printable range: 31, 32, 126, 127
BoundarySources ==
    { Wrap("normal", Rep("+", 7) \o <<" ">> \o Rep("+", 2) \o tail \o <<".">>) :
        tail \in { <<>>, <<" ", "+">> } }
    \cup
    { Wrap("normal", Rep("+", 15) \o <<" ">> \o Rep("+", 3) \o tail \o <<".">>) :
        tail \in { <<>>, <<" ", "+">> } }

Sources ==
    TokenSources \cup RunSources \cup OverrideSources \cup NestedSources
        \cup SequenceSources \cup ScenarioSources \cup BoundarySources

\* code points of the characters an input stream is made of
CodePoints == {31, 32, 126, 383}

Inputs == UNION { [1..n -> CodePoints] : n \in 0..MaxInput }

\* the program reads sys.stdin only at a ','
InputsOf(src) == IF \E k \in 1..Len(src) : src[k] = "," THEN Inputs ELSE {<<>>}

(***************************************************************************)
(* Init: main has read the file (annoy.py 248-249); the machine state is   *)
(* that of AnnoyInterpreter.__init__ (annoy.py 117-121)                    *)
(***************************************************************************)
Init ==
    /\ pc = "start"
    /\ source \in Sources
    /\ stdin \in InputsOf(source)
    /\ stdout = <<>>
    /\ blocks = <<>>
    /\ tape = [c \in 0..(TapeSize - 1) |-> 0]
    /\ pointer = 0
    /\ instruction_counter = 0
    /\ block_index = 0
    /\ stack = <<>>
    /\ error = NoError
    /\ visited = 0

(***************************************************************************)
(* Actions                                                                 *)
(***************************************************************************)

\* main: strip the comments, parse, construct the interpreter (annoy.py 254-263)
Main ==
    /\ pc = "start"
    /\ LET stripped == strip_comments(source)
           m == main_parse(stripped)
       IN  /\ source' = stripped
           /\ pc' = m.pc
           /\ blocks' = m.blocks
           /\ error' = m.error
    /\ UNCHANGED <<stdin, stdout, tape, pointer, instruction_counter, block_index,
                   stack, visited>>

\* faulty variant of SkipConditional: a skipped Conditional is not counted
SkipConditional_nocount ==
    /\ Calling
    /\ GuardFalse(Callee, tape[pointer])
    /\ pointer' = apply_pointer_movement(pointer, instruction_counter + 1, 0)
    /\ stack' = ReturnStack(stack)
    /\ block_index' = ReturnIndex(stack)
    /\ visited' = visited + 1
    /\ UNCHANGED <<pc, source, stdin, stdout, blocks, tape, error, instruction_counter>>

\* execute_block on a Conditional whose condition is false (annoy.py 134-140)
SkipConditional ==
    /\ Calling
    /\ GuardFalse(Callee, tape[pointer])
    /\ instruction_counter' = instruction_counter + 1
    /\ pointer' = apply_pointer_movement(pointer, instruction_counter', 0)
    /\ stack' = ReturnStack(stack)
    /\ block_index' = ReturnIndex(stack)
    /\ visited' = visited + 1
    /\ UNCHANGED <<pc, source, stdin, stdout, blocks, tape, error>>

\* execute_block entered: Normal, or Conditional with its condition true
\* (annoy.py 128-144)
EnterBlock ==
    /\ Calling
    /\ ~GuardFalse(Callee, tape[pointer])
    /\ stack' = Append(stack, Frame(Callee, CalleeDepth))
    /\ visited' = visited + 1
    /\ UNCHANGED <<pc, source, stdin, stdout, blocks, tape, pointer,
                   instruction_counter, block_index, error>>

\* a run of '+' or '-' (annoy.py 171-186)
PlusMinus ==
    /\ AtOp
    /\ OpChar \in {"+", "-"}
    /\ LET j == run_end(CurLiteral, OpChar, Top.i + 1)
           count == j - Top.i
       IN  /\ tape' = [tape EXCEPT ![pointer] =
                           cell_after_run(@, OpChar, Top.depth, count)]
           /\ stack' = SetTop(stack, [Top EXCEPT !.i = j])
    /\ UNCHANGED <<pc, source, stdin, stdout, blocks, pointer, instruction_counter,
                   block_index, error, visited>>

\* '^' or 'v' (annoy.py 187-195)
PointerOverride ==
    /\ AtOp
    /\ OpChar \in {"^", "v"}
    /\ stack' = SetTop(stack, [Top EXCEPT
                   !.pointer_override = @ + override_step(OpChar, Top.depth),
                   !.i = @ + 1])
    /\ UNCHANGED <<pc, source, stdin, stdout, blocks, tape, pointer,
                   instruction_counter, block_index, error, visited>>

\* '.' on a printable cell (annoy.py 196-203)
Output ==
    /\ AtOp
    /\ OpChar = "."
    /\ ~not_printable(tape[pointer])
    /\ stdout' = Append(stdout, tape[pointer])
    /\ stack' = SetTop(stack, [Top EXCEPT !.i = @ + 1])
    /\ UNCHANGED <<pc, source, stdin, blocks, tape, pointer, instruction_counter,
                   block_index, error, visited>>

\* faulty variant of OutputError: the active Blocks are counted while the
\* exception unwinds them
OutputError_counts ==
    /\ AtOp
    /\ OpChar = "."
    /\ not_printable(tape[pointer])
    /\ RaiseRuntime("Display of Dismay error")
    /\ instruction_counter' = instruction_counter + Len(stack)
    /\ UNCHANGED <<source, stdin, stdout, blocks, tape, pointer, block_index, visited>>

\* '.' on a cell that is not printable (annoy.py 199-200)
OutputError ==
    /\ AtOp
    /\ OpChar = "."
    /\ not_printable(tape[pointer])
    /\ RaiseRuntime("Display of Dismay error")
    /\ UNCHANGED <<source, stdin, stdout, blocks, tape, pointer, instruction_counter,
                   block_index, visited>>

\* ',' with a character to read (annoy.py 204-210)
Input ==
    /\ AtOp
    /\ OpChar = ","
    /\ stdin # <<>>
    /\ tape' = [tape EXCEPT ![pointer] = cell_after_input(Head(stdin))]
    /\ stdin' = Tail(stdin)
    /\ stack' = SetTop(stack, [Top EXCEPT !.i = @ + 1])
    /\ UNCHANGED <<pc, source, stdout, blocks, pointer, instruction_counter,
                   block_index, error, visited>>

\* ',' at the end of the input (annoy.py 206-208)
InputError ==
    /\ AtOp
    /\ OpChar = ","
    /\ stdin = <<>>
    /\ RaiseRuntime("Input error: no input available")
    /\ UNCHANGED <<source, stdin, stdout, blocks, tape, pointer, instruction_counter,
                   block_index, visited>>

\* '#' (annoy.py 211-214)
Reset ==
    /\ AtOp
    /\ OpChar = "#"
    /\ tape' = [tape EXCEPT ![pointer] = 0]
    /\ stack' = SetTop(stack, [Top EXCEPT !.i = @ + 1])
    /\ UNCHANGED <<pc, source, stdin, stdout, blocks, pointer, instruction_counter,
                   block_index, error, visited>>

\* whitespace inside a literal (annoy.py 215-217)
Whitespace ==
    /\ AtOp
    /\ isspace(OpChar)
    /\ stack' = SetTop(stack, [Top EXCEPT !.i = @ + 1])
    /\ UNCHANGED <<pc, source, stdin, stdout, blocks, tape, pointer,
                   instruction_counter, block_index, error, visited>>

\* any other character (annoy.py 218-219)
UnknownOperation ==
    /\ AtOp
    /\ OpChar \notin {"+", "-", "^", "v", ".", ",", "#"}
    /\ ~isspace(OpChar)
    /\ RaiseRuntime("Unknown operation symbol")
    /\ UNCHANGED <<source, stdin, stdout, blocks, tape, pointer, instruction_counter,
                   block_index, visited>>

\* execute_literal returns its override to execute_block (annoy.py 220, 149-150)
EndLiteral ==
    /\ InLiteral
    /\ Top.i >= Len(CurLiteral)
    /\ stack' = SetTop(stack, after_literal(Top))
    /\ UNCHANGED <<pc, source, stdin, stdout, blocks, tape, pointer,
                   instruction_counter, block_index, error, visited>>

\* all items processed: count the Block, move the pointer, return
\* (annoy.py 157-160)
FinishBlock ==
    /\ pc = "run"
    /\ stack # <<>>
    /\ ~AtItem(Top)
    /\ instruction_counter' = instruction_counter + 1
    /\ pointer' = apply_pointer_movement(pointer, instruction_counter',
                                         Top.block_pointer_override)
    /\ stack' = ReturnStack(Pop(stack))
    /\ block_index' = ReturnIndex(Pop(stack))
    /\ UNCHANGED <<pc, source, stdin, stdout, blocks, tape, error, visited>>

\* run() returns to main (annoy.py 125-126, 265)
RunDone ==
    /\ pc = "run"
    /\ stack = <<>>
    /\ block_index >= Len(blocks)
    /\ pc' = "done"
    /\ UNCHANGED <<source, stdin, stdout, blocks, tape, pointer, instruction_counter,
                   block_index, stack, error, visited>>

Next ==
    \/ Main
    \/ SkipConditional
    \/ EnterBlock
    \/ PlusMinus
    \/ PointerOverride
    \/ Output
    \/ OutputError
    \/ Input
    \/ InputError
    \/ Reset
    \/ Whitespace
    \/ UnknownOperation
    \/ EndLiteral
    \/ FinishBlock
    \/ RunDone

Spec == Init /\ [][Next]_vars

\* the steps of interpreter.run() (annoy.py 123-160, 162-220)
run ==
    \/ SkipConditional
    \/ EnterBlock
    \/ PlusMinus
    \/ PointerOverride
    \/ Output
    \/ OutputError
    \/ Input
    \/ InputError
    \/ Reset
    \/ Whitespace
    \/ UnknownOperation
    \/ EndLiteral
    \/ FinishBlock
    \/ RunDone

\* main runs on its own: parsing comes to its end, and each step of run() is
\* followed by the next (sys.stdin is a stream that does not block).  Main is
\* enabled exactly while pc = "start" and leaves it, so its weak fairness is
\* written as the eventuality it amounts to.
FairSpec == Spec /\ <>(pc # "start") /\ WF_vars(run)

(***************************************************************************)
(* Properties                                                              *)
(***************************************************************************)

\* x reduced into 0..TapeSize-1 by adding or removing whole turns of the tape
Wrapped(x) ==
    CHOOSE p \in 0..(TapeSize - 1) : \E q \in -4..4 : x = p + TapeSize * q

\* the default movement for the counter value reached by the Block
DefaultStep(ptr, counter_after) ==
    IF counter_after % 2 = 1 THEN Wrapped(ptr - 1) ELSE Wrapped(ptr + 1)

\* the innermost execute_block call has processed all its items
PendingFinish == pc = "run" /\ stack # <<>> /\ ~AtItem(Top)

\* execute_block is about to be called on a Conditional with a zero guard cell
AtZeroConditional ==
    Calling /\ Callee.block_type = "conditional" /\ tape[pointer] = 0

\* the override total of the Block whose counting is next, 0 for a skip
PendingOverride == IF PendingFinish THEN Top.block_pointer_override ELSE 0

CountOf(c, literal) == Cardinality({k \in 1..Len(literal) : literal[k] = c})

OnlyChar(c, literal) == \A k \in 1..Len(literal) : literal[k] = c

\* C1: every tape cell always holds an integer in [0,255], and the tape always
\* has its 128 cells.
C1_CellsInRange ==
    /\ DOMAIN tape = 0..127
    /\ \A c \in DOMAIN tape : tape[c] \in 0..255

\* a run of at least 23 '+' at depth 0 on a zero cell has just wrapped past 255
C1_Witness ==
    /\ InLiteral
    /\ Top.depth = 0
    /\ Top.i >= 23
    /\ Top.i < Len(CurLiteral)
    /\ OnlyChar("+", SubSeq(CurLiteral, 1, Top.i))
    /\ tape[pointer] = ((Top.i * (Top.i + 1)) \div 2) - 256

\* C2: the pointer always is in [0,127]; an override, of any size and sign,
\* moves it by that many cells around the tape, and the default step goes
\* from 0 to 127 and from 127 to 0.
C2_PointerWraps ==
    /\ pointer \in 0..127
    /\ [][ /\ pointer' \in 0..127
           /\ (PendingFinish /\ PendingOverride # 0)
                 => pointer' = Wrapped(pointer + PendingOverride)
           /\ (instruction_counter' # instruction_counter /\ PendingOverride = 0)
                 => pointer' = DefaultStep(pointer, instruction_counter')
         ]_vars

\* a Block of more than 128 'v' at depth 0 has moved the pointer from 0
C2_Witness ==
    /\ pc = "done"
    /\ Len(blocks) = 1
    /\ Len(blocks[1].items) = 1
    /\ LET l == blocks[1].items[1].str
       IN  /\ Len(l) > TapeSize
           /\ Len(l) < 2 * TapeSize
           /\ OnlyChar("v", l)
           /\ pointer = 2 * TapeSize - Len(l)

\* C3: instruction_counter starts at 0 and changes only by +1; while the run
\* has not failed it is the number of Blocks visited minus those still in
\* execution, so that at the end of run() it is the number of Blocks visited.
C3_CounterCountsBlocks ==
    /\ instruction_counter = 0
    /\ [](pc \in {"run", "done"} => instruction_counter = visited - Len(stack))
    /\ [](pc = "done" => instruction_counter = visited)
    /\ [][instruction_counter' \in {instruction_counter, instruction_counter + 1}]_vars

\* a run has completed that visited nested Blocks, four Blocks or more
C3_Witness ==
    /\ pc = "done"
    /\ instruction_counter >= 4
    /\ instruction_counter = visited
    /\ Len(blocks) < instruction_counter

\* C4: executing a Conditional whose guard cell is 0 changes neither the tape
\* nor the output nor the input, runs nothing of its body, raises nothing,
\* adds 1 to instruction_counter and moves the pointer by the default rule.
C4_SkipFrame ==
    [][ AtZeroConditional =>
          /\ tape' = tape
          /\ stdout' = stdout
          /\ stdin' = stdin
          /\ pc' = pc
          /\ error' = error
          /\ blocks' = blocks
          /\ Len(stack') = Len(stack)
          /\ visited' = visited + 1
          /\ instruction_counter' = instruction_counter + 1
          /\ pointer' = DefaultStep(pointer, instruction_counter + 1)
      ]_vars

\* a top-level Conditional holding a '^' or 'v' and a nested Block was skipped
C4_Witness ==
    /\ pc = "done"
    /\ Len(blocks) = 1
    /\ blocks[1].block_type = "conditional"
    /\ \E k \in 1..Len(blocks[1].items) : blocks[1].items[k].type = "Block"
    /\ \E k \in 1..Len(blocks[1].items) :
          /\ blocks[1].items[k].type = "str"
          /\ CountOf("^", blocks[1].items[k].str) + CountOf("v", blocks[1].items[k].str) > 0
    /\ instruction_counter = 1
    /\ visited = 1
    /\ pointer = 127
    /\ \A c \in DOMAIN tape : tape[c] = 0
    /\ stdout = <<>>

\* the length of the maximal run of the character at position i of literal
RunLength(literal, i) ==
    CHOOSE n \in 1..(Len(literal) - i) :
        /\ \A k \in 0..(n - 1) : At(literal, i + k) = At(literal, i)
        /\ (i + n = Len(literal) \/ At(literal, i + n) # At(literal, i))

\* +1 when the run adds, -1 when it subtracts
RunSign(c, depth) ==
    IF (c = "+") = (depth % 2 = 0) THEN 1 ELSE -1

\* C5: a '+' / '-' is executed at the start of a maximal run of N characters,
\* consumes the whole run in one step and changes the current cell, and no
\* other, by N(N+1)/2 modulo 256, added for '+' at even depth and '-' at odd
\* depth, subtracted otherwise.
C5_TriangularRun ==
    [][ (AtOp /\ OpChar \in {"+", "-"}) =>
          LET N == RunLength(CurLiteral, Top.i)
              S == (N * (N + 1)) \div 2
              d == Len(stack) - 1
          IN  /\ (Top.i = 0 \/ At(CurLiteral, Top.i - 1) # OpChar)
              /\ tape'[pointer] = (tape[pointer] + RunSign(OpChar, d) * S) % 256
              /\ \A c \in DOMAIN tape : c # pointer => tape'[c] = tape[c]
              /\ stack'[Len(stack)].i = Top.i + N
              /\ pointer' = pointer
      ]_vars

\* eight '+' at depth 0 on a zero cell have given 36
C5_Witness ==
    /\ InLiteral
    /\ Top.depth = 0
    /\ CurLiteral = <<" ">> \o Rep("+", 8) \o <<" ", ".", " ">>
    /\ Top.i = 9
    /\ tape[0] = 36
    /\ pointer = 0

\* C6: the pointer moves exactly when a Block is counted, and then by the
\* rule applied to the counter after its increment: by the Block's override
\* total when that is not 0, else left when the counter is odd and right when
\* it is even, modulo 128.
C6_MoveOncePerBlock ==
    [][ IF instruction_counter' # instruction_counter
        THEN pointer' =
                IF PendingOverride # 0
                THEN (pointer + PendingOverride) % 128
                ELSE IF instruction_counter' % 2 = 1
                     THEN (pointer - 1) % 128
                     ELSE (pointer + 1) % 128
        ELSE pointer' = pointer
      ]_vars

\* two empty top-level Blocks: the pointer went to 127 and came back to 0
C6_Witness ==
    /\ pc = "done"
    /\ source = <<"(", "<", " ", ">", ")", "(", "<", " ", ">", ")">>
    /\ instruction_counter = 2
    /\ pointer = 0
    /\ stdout = <<>>

\* the override a literal yields at a depth: its '^' minus its 'v', negated
\* at odd depth
LiteralOverride(literal, depth) ==
    LET up == CountOf("^", literal)
        down == CountOf("v", literal)
    IN  IF depth % 2 = 0 THEN up - down ELSE down - up

RECURSIVE DirectOverride(_, _)
\* the sum of the overrides of the literal items of a Block's item list
DirectOverride(items, depth) ==
    IF items = <<>> THEN 0
    ELSE (IF Head(items).type = "str" THEN LiteralOverride(Head(items).str, depth) ELSE 0)
         + DirectOverride(Tail(items), depth)

\* a literal item of the Block holds a '^' or a 'v'
HasOverrideChar(b) ==
    \E k \in 1..Len(b.items) :
        /\ b.items[k].type = "str"
        /\ CountOf("^", b.items[k].str) + CountOf("v", b.items[k].str) > 0

\* C7: when a Block whose own literals hold a '^' or 'v' is counted, the
\* pointer moves by the algebraic sum of their contributions modulo 128 and
\* the default step is not applied.
C7_OverrideReplacesDefault ==
    [][ (PendingFinish /\ HasOverrideChar(Top.block)) =>
          pointer' = Wrapped(pointer + DirectOverride(Items(Top), Len(stack) - 1))
      ]_vars

\* C8: the movement applied when a Block is counted is decided by the
\* overrides of that Block's own literal items alone, whatever its nested
\* Blocks and the Blocks around it hold.
C8_OverrideScoped ==
    [][ PendingFinish =>
          LET total == DirectOverride(Items(Top), Len(stack) - 1)
          IN  pointer' = IF total # 0
                         THEN Wrapped(pointer + total)
                         ELSE DefaultStep(pointer, instruction_counter + 1)
      ]_vars

\* "(<+(<^>)>)" has run: the nested '^' moved the pointer for the nested
\* Block only, the outer Block took the default step
C8_Witness ==
    /\ pc = "done"
    /\ Len(blocks) = 1
    /\ Len(blocks[1].items) = 2
    /\ blocks[1].items[1].str = <<"+">>
    /\ blocks[1].items[2].type = "Block"
    /\ blocks[1].items[2].block.items = <<StrItem(<<"^">>)>>
    /\ instruction_counter = 2
    /\ pointer = 0

\* C9: '.' on a cell in [32,126] appends exactly that character to the output
\* and goes on; on any other cell it raises the Display of Dismay error and
\* appends nothing; nothing else writes, so the output only holds characters
\* in [32,126].
C9_OutputPrintable ==
    /\ [](\A k \in 1..Len(stdout) : stdout[k] \in 32..126)
    /\ [][ IF AtOp /\ OpChar = "."
           THEN IF tape[pointer] \in 32..126
                THEN /\ stdout' = Append(stdout, tape[pointer])
                     /\ pc' = "run"
                     /\ error' = NoError
                ELSE /\ stdout' = stdout
                     /\ pc' = "runtime_error"
                     /\ error'.msg = "Display of Dismay error"
           ELSE stdout' = stdout
         ]_vars

\* "(< # . >)" has failed at '.' on a zero cell without output
C9_Witness ==
    /\ pc = "runtime_error"
    /\ source = <<"(", "<", " ", "#", " ", ".", " ", ">", ")">>
    /\ error.msg = "Display of Dismay error"
    /\ tape[pointer] = 0
    /\ stdout = <<>>

\* main has not run the interpreter: the machine is as constructed, nothing
\* was written
Untouched ==
    /\ visited = 0
    /\ stack = <<>>
    /\ block_index = 0
    /\ instruction_counter = 0
    /\ pointer = 0
    /\ stdout = <<>>
    /\ \A c \in DOMAIN tape : tape[c] = 0

\* the comment-stripped source does not parse
ParseFails ==
    LET stripped == strip_comments(source)
    IN  Len(stripped) >= 0 /\ ~parse_program(stripped).ok

\* C10: when the comment-stripped source does not parse, main goes from its
\* start to the parse error, where it stops for good, without executing a
\* Block: tape, pointer, instruction_counter, output and input are as they
\* were at the start.
C10_NoRunOnParseError ==
    /\ [](pc \in {"start", "parse_error"} => Untouched)
    /\ [][ (pc = "start" /\ ParseFails) =>
             /\ pc' = "parse_error"
             /\ error' # NoError
             /\ UNCHANGED <<stdin, stdout, tape, pointer, instruction_counter,
                            stack, block_index, visited>>
         ]_vars
    /\ [][pc # "parse_error"]_vars

\* the parse failed in a later construct, after a well-formed first Block
C10_Witness ==
    /\ pc = "parse_error"
    /\ parse_block(source, 0).ok
    /\ error.index > parse_block(source, 0).index
    /\ instruction_counter = 0
    /\ stdout = <<>>

RECURSIVE open_blocks(_, _, _)
\* the start indices of the blocks still open when a scan of the text from
\* index reaches its end, outermost first; opens holds, for each open block,
\* its start and its closing marker.  <<>> when the scan stops at something
\* that is not a block
open_blocks(text, index, opens) ==
    IF index >= Len(text) THEN [k \in 1..Len(opens) |-> opens[k].start]
    ELSE LET opener == /\ At(text, index) = "("
                       /\ index + 1 < Len(text)
                       /\ At(text, index + 1) \in {"<", "?"}
             pushed == Append(opens,
                          [start |-> index,
                           closer |-> IF At(text, index + 1) = "<"
                                      THEN <<">", ")">> ELSE <<"?", ")">>])
         IN  IF opens = <<>>
             THEN IF isspace(At(text, index)) THEN open_blocks(text, index + 1, opens)
                  ELSE IF opener THEN open_blocks(text, index + 2, pushed)
                  ELSE <<>>
             ELSE IF Slice(text, index, index + 2) = opens[Len(opens)].closer
                  THEN open_blocks(text, index + 2, SubSeq(opens, 1, Len(opens) - 1))
                  ELSE IF opener THEN open_blocks(text, index + 2, pushed)
                  ELSE open_blocks(text, index + 1, opens)

\* C11: when the end of the input is reached inside a block, the parse error
\* reports the start position of that block, the index of its opening '('.
C11_MissingCloserReportsStart ==
    (pc = "parse_error" /\ error.msg = "Missing closing token") =>
        LET starts == open_blocks(source, 0, <<>>)
        IN  /\ starts # <<>>
            /\ error.index = starts[Len(starts)]

\* the operation execute_literal is at raises: '.' on a cell outside [32,126],
\* ',' at the end of the input, or a character that is no operation
FailingOp ==
    /\ AtOp
    /\ \/ OpChar = "." /\ tape[pointer] \notin 32..126
       \/ OpChar = "," /\ stdin = <<>>
       \/ OpChar \notin {"+", "-", "^", "v", ".", ",", "#", " ", "\n", "\t"}

\* C12: a run ends either completed, all top-level Blocks executed and no
\* error, or at the first failing operation, which stops it at once: the
\* failing step changes neither output, tape, pointer nor counter, and after
\* it (as after completion) nothing changes any more; the output only grows.
C12_AbortAtFirstError ==
    /\ [](pc = "done" =>
            error = NoError /\ stack = <<>> /\ block_index = Len(blocks))
    /\ [][ /\ pc \notin {"runtime_error", "done"}
           /\ FailingOp => pc' = "runtime_error"
           /\ pc' = "runtime_error" =>
                 /\ FailingOp
                 /\ UNCHANGED <<stdout, stdin, tape, pointer, instruction_counter>>
           /\ Len(stdout') >= Len(stdout)
           /\ SubSeq(stdout', 1, Len(stdout)) = stdout
         ]_vars

\* '$' was written, then '.' failed on the zeroed cell: the output is kept and
\* the second top-level Block was never started
C12_Witness ==
    /\ pc = "runtime_error"
    /\ stdout = <<36>>
    /\ Len(blocks) = 2
    /\ block_index = 0
    /\ instruction_counter = 0
    /\ tape[0] = 0

\* the interpreter's fields and streams as one value, for the recursive
\* reading of run() below
Machine(t, p, c, inp, out, failed) ==
    [tape |-> t, pointer |-> p, instruction_counter |-> c, stdin |-> inp,
     stdout |-> out, failed |-> failed]

\* one operation of a literal, the one at position i: the machine after it,
\* the position after it and what it adds to the override
dfs_operation(m, literal, i, depth) ==
    LET c == At(literal, i)
        cell == m.tape[m.pointer]
        n == RunLength(literal, i)
        fails == [m |-> [m EXCEPT !.failed = TRUE], i |-> i, override |-> 0]
    IN  CASE c \in {"+", "-"} ->
                 [m |-> [m EXCEPT !.tape[m.pointer] =
                                      cell_after_run(cell, c, depth, n)],
                  i |-> i + n, override |-> 0]
          [] c \in {"^", "v"} ->
                 [m |-> m, i |-> i + n, override |-> n * override_step(c, depth)]
          [] c = "." ->
                 IF not_printable(cell) THEN fails
                 ELSE [m |-> [m EXCEPT !.stdout = Append(@, cell)],
                       i |-> i + 1, override |-> 0]
          [] c = "," ->
                 IF m.stdin = <<>> THEN fails
                 ELSE [m |-> [m EXCEPT !.tape[m.pointer] =
                                           cell_after_input(Head(m.stdin)),
                                       !.stdin = Tail(@)],
                       i |-> i + 1, override |-> 0]
          [] c = "#" ->
                 [m |-> [m EXCEPT !.tape[m.pointer] = 0],
                  i |-> i + 1, override |-> 0]
          [] isspace(c) -> [m |-> m, i |-> i + 1, override |-> 0]
          [] OTHER -> fails

RECURSIVE dfs_literal(_, _, _, _, _)
\* the operations of a literal from position i on, left to right, stopping at
\* the first that fails; the result carries the override collected so far
dfs_literal(m, literal, i, depth, override) ==
    IF m.failed \/ i >= Len(literal)
    THEN [m |-> m, override |-> override]
    ELSE LET r == dfs_operation(m, literal, i, depth)
         IN  dfs_literal(r.m, literal, r.i, depth, override + r.override)

RECURSIVE dfs_items(_, _, _, _, _)
RECURSIVE dfs_block(_, _, _)
\* the items of a Block from the k-th on, in written order; a nested Block is
\* run whole before the item after it
dfs_items(m, items, k, depth, override) ==
    IF m.failed \/ k > Len(items)
    THEN [m |-> m, override |-> override]
    ELSE IF items[k].type = "str"
         THEN LET r == dfs_literal(m, items[k].str, 0, depth, 0)
              IN  dfs_items(r.m, items, k + 1, depth, override + r.override)
         ELSE LET after == dfs_block(m, items[k].block, depth + 1)
              IN  dfs_items(after, items, k + 1, depth, override)

\* one Block with all its descendants, then its count and its pointer step
dfs_block(m, b, depth) ==
    IF m.failed THEN m
    ELSE IF GuardFalse(b, m.tape[m.pointer])
    THEN [m EXCEPT !.instruction_counter = @ + 1,
                   !.pointer = apply_pointer_movement(
                                   @, m.instruction_counter + 1, 0)]
    ELSE LET r == dfs_items(m, b.items, 1, depth, 0)
         IN  IF r.m.failed THEN r.m
             ELSE [r.m EXCEPT !.instruction_counter = @ + 1,
                              !.pointer = apply_pointer_movement(
                                   @, r.m.instruction_counter + 1, r.override)]

RECURSIVE dfs_run(_, _, _, _)
\* the top-level Blocks k..n in program order
dfs_run(m, bs, k, n) ==
    IF m.failed \/ k > n THEN m
    ELSE dfs_run(dfs_block(m, bs[k], 0), bs, k + 1, n)

\* the input streams that end with what is still unread
InputsEndingWith(rest) ==
    { inp \in Inputs :
        /\ Len(inp) >= Len(rest)
        /\ SubSeq(inp, Len(inp) - Len(rest) + 1, Len(inp)) = rest }

FreshMachine(inp) ==
    Machine([c \in 0..(TapeSize - 1) |-> 0], 0, 0, inp, <<>>, FALSE)

\* the machine is where the depth-first, left-to-right reading of the first n
\* top-level Blocks leaves it on some input stream
DepthFirstResult(n, failed) ==
    \E inp \in InputsEndingWith(stdin) :
        dfs_run(FreshMachine(inp), blocks, 1, n) =
            Machine(tape, pointer, instruction_counter, stdin, stdout, failed)

\* C13: operations execute depth first, left to right: between top-level
\* Blocks, at completion and at a runtime error the tape, pointer, counter,
\* input and output are those of the recursive reading of the Block tree; a
\* caller's frame stands still while a nested Block runs and moves on by one
\* item when it returns, the return counting the Block; and the output grows
\* by the current cell exactly at each successful '.'.
C13_DepthFirstOrder ==
    /\ [](pc = "run" /\ stack = <<>> => DepthFirstResult(block_index, FALSE))
    /\ [](pc = "done" => DepthFirstResult(Len(blocks), FALSE))
    /\ [](pc = "runtime_error" => DepthFirstResult(Len(blocks), TRUE))
    /\ [][ /\ \A k \in 1..Len(stack) :
                 k < Len(stack) /\ k <= Len(stack') =>
                     IF k < Len(stack')
                     THEN stack'[k] = stack[k]
                     ELSE stack'[k] = [stack[k] EXCEPT !.item = @ + 1]
           /\ Len(stack') < Len(stack) /\ pc' = "run" =>
                 /\ Len(stack') = Len(stack) - 1
                 /\ ~AtItem(Top)
                 /\ instruction_counter' = instruction_counter + 1
           /\ IF AtOp /\ OpChar = "." /\ tape[pointer] \in 32..126
              THEN stdout' = Append(stdout, tape[pointer])
              ELSE stdout' = stdout
         ]_vars

\* "(<++++++++.(<-.>)+++++++++.>)(<.>)" has written '$' in the outer Block,
\* '%' in the nested one, '-' after it and '%' in the second top-level Block
C13_Witness ==
    /\ pc = "done"
    /\ stdout = <<36, 37, 45, 37>>
    /\ instruction_counter = 3
    /\ pointer = 127
    /\ tape[0] = 37
    /\ tape[127] = 45

\* C14: ',' takes exactly one character off the input and stores its code
\* point modulo 256 in the current cell, leaving every other cell, the
\* pointer and instruction_counter alone; at the end of the input it raises
\* the runtime error and leaves the tape as it is.  Nothing else reads input.
C14_InputReadsOne ==
    [][ /\ (AtOp /\ OpChar = "," /\ stdin # <<>>) =>
               /\ stdin' = Tail(stdin)
               /\ tape' = [tape EXCEPT ![pointer] = Head(stdin) % 256]
               /\ tape'[pointer] \in 0..255
               /\ pc' = "run"
               /\ UNCHANGED <<pointer, instruction_counter, stdout>>
        /\ (AtOp /\ OpChar = "," /\ stdin = <<>>) =>
               /\ pc' = "runtime_error"
               /\ error'.msg = "Input error: no input available"
               /\ UNCHANGED <<tape, stdin, pointer, instruction_counter, stdout>>
        /\ stdin' # stdin => AtOp /\ OpChar = ","
      ]_vars

\* the character 383 was read as 127, then a second ',' found the input
\* exhausted and left the 127 in place
C14_Witness ==
    /\ pc = "runtime_error"
    /\ error.msg = "Input error: no input available"
    /\ stdin = <<>>
    /\ tape[pointer] = 127

\* the program text (comments stripped) holds no '^' and no 'v'
NoOverrideProgram ==
    /\ pc \in {"run", "done", "runtime_error"}
    /\ \A k \in 1..Len(source) : source[k] \notin {"^", "v"}

\* C15: in a program without '^' and 'v' the pointer is 127 whenever
\* instruction_counter is odd and 0 whenever it is even, each counted Block
\* (skipped Conditionals included) flipping it, so only cells 0 and 127 are
\* ever non-zero.
C15_PointerAlternates ==
    /\ [](NoOverrideProgram =>
            /\ pointer = (IF instruction_counter % 2 = 1 THEN TapeSize - 1 ELSE 0)
            /\ \A c \in 1..(TapeSize - 2) : tape[c] = 0)
    /\ [][(NoOverrideProgram /\ instruction_counter' # instruction_counter) =>
            /\ instruction_counter' = instruction_counter + 1
            /\ pointer' = (TapeSize - 1) - pointer
            /\ pointer' \in {0, TapeSize - 1}]_vars

\* three Blocks were counted, among them a nested one, both cells were written
C15_Witness ==
    /\ NoOverrideProgram
    /\ pc = "done"
    /\ instruction_counter = 3
    /\ visited = 3
    /\ pointer = TapeSize - 1
    /\ tape[0] # 0
    /\ tape[TapeSize - 1] # 0

RECURSIVE Unparse(_)
RECURSIVE UnparseItems(_, _)
\* a Block written back out: its opener, its items in order (a literal as it
\* is, a nested Block written the same way), its closing marker
Unparse(b) ==
    (IF b.block_type = "normal" THEN <<"(", "<">> ELSE <<"(", "?">>)
        \o UnparseItems(b.items, 1)
        \o (IF b.block_type = "normal" THEN <<">", ")">> ELSE <<"?", ")">>)

UnparseItems(items, k) ==
    IF k > Len(items) THEN <<>>
    ELSE (IF items[k].type = "str" THEN items[k].str ELSE Unparse(items[k].block))
             \o UnparseItems(items, k + 1)

\* parse_block at index i of text, when it succeeds, returns the Block whose
\* kind the opener names and the index just past its closing marker, and the
\* Block written back out is text[i : that index]
RoundTripAt(text, i) ==
    LET r == parse_block(text, i)
    IN  r.ok =>
           /\ r.block.block_type =
                  (IF Slice(text, i, i + 2) = <<"(", "<">> THEN "normal"
                   ELSE "conditional")
           /\ Slice(text, i, i + 2) \in { <<"(", "<">>, <<"(", "?">> }
           /\ r.index <= Len(text)
           /\ Slice(text, r.index - 2, r.index) =
                  (IF r.block.block_type = "normal" THEN <<">", ")">>
                   ELSE <<"?", ")">>)
           /\ Unparse(r.block) = Slice(text, i, r.index)

RECURSIVE TopLevelInOrder(_, _, _, _)
\* from index i on, text is the Blocks bs[k..] written out in that order with
\* nothing but whitespace before, between and after them
TopLevelInOrder(text, i, bs, k) ==
    IF i < Len(text) /\ isspace(At(text, i))
    THEN TopLevelInOrder(text, i + 1, bs, k)
    ELSE IF k > Len(bs) THEN i >= Len(text)
    ELSE LET written == Unparse(bs[k])
         IN  /\ Slice(text, i, i + Len(written)) = written
             /\ TopLevelInOrder(text, i + Len(written), bs, k + 1)

\* C16: wherever parse_block succeeds, the Block has the opener's kind, the
\* index returned is just past the closing marker, and the Block written back
\* out is exactly the text between the two; the Blocks parse_program returns
\* are the top-level Blocks of the text in order, whitespace apart.
C16_ParseRoundTrip ==
    [][pc = "start" =>
          LET stripped == strip_comments(source)
          IN  /\ Len(stripped) >= 0
              /\ \A i \in 0..(Len(stripped) - 1) : RoundTripAt(stripped, i)
              /\ pc' = "run" => TopLevelInOrder(stripped, 0, blocks', 1)
      ]_vars

\* two top-level Blocks were parsed, the first holding a literal, a nested
\* Block and a literal, and together they spell the source
C16_Witness ==
    /\ pc = "run"
    /\ visited = 0
    /\ Len(blocks) = 2
    /\ Len(blocks[1].items) = 3
    /\ blocks[1].items[2].type = "Block"
    /\ blocks[1].items[3].type = "str"
    /\ Unparse(blocks[1]) \o Unparse(blocks[2]) = source

\* the machine as the recursive reading of run() sees it
CurrentMachine ==
    Machine(tape, pointer, instruction_counter, stdin, stdout, FALSE)

\* a Conditional is being entered on a non-zero cell
EnteringConditional ==
    /\ Calling
    /\ Callee.block_type = "conditional"
    /\ tape[pointer] # 0

\* C17: the guard of a Conditional is looked at once, at entry.  Entered on a
\* non-zero cell it runs as the Normal Block with the same items at the same
\* depth would: the same frame is pushed, the whole run of the Block has the
\* same result, and while its frame is active, whatever the cell becomes, the
\* item position only moves forward one item at a time, a literal's override
\* is added when the literal ends, and the frame leaves only at a runtime
\* error or after its last item, counting the Block and moving the pointer.
C17_ConditionalIsNormalOnceEntered ==
    [][ /\ EnteringConditional =>
              /\ stack' = Append(stack, Frame(Callee, CalleeDepth))
              /\ UNCHANGED <<tape, pointer, instruction_counter, stdout>>
              /\ dfs_block(CurrentMachine, Callee, CalleeDepth) =
                     dfs_block(CurrentMachine,
                               [Callee EXCEPT !.block_type = "normal"],
                               CalleeDepth)
        /\ \A k \in 1..Len(stack) :
              stack[k].block.block_type = "conditional" =>
                  IF k <= Len(stack')
                  THEN /\ stack'[k].block = stack[k].block
                       /\ stack'[k].depth = stack[k].depth
                       /\ \/ /\ stack'[k].item = stack[k].item
                             /\ stack'[k].i >= stack[k].i
                             /\ stack'[k].block_pointer_override =
                                    stack[k].block_pointer_override
                          \/ /\ stack'[k].item = stack[k].item + 1
                             /\ stack'[k].block_pointer_override =
                                    stack[k].block_pointer_override
                                        + stack[k].pointer_override
                  ELSE \/ pc' = "runtime_error"
                       \/ /\ k = Len(stack)
                          /\ stack[k].item = Len(stack[k].block.items)
                          /\ instruction_counter' = instruction_counter + 1
                          /\ pointer' = apply_pointer_movement(
                                 pointer, instruction_counter + 1,
                                 stack[k].block_pointer_override)
      ]_vars

\* "(<+(?+^(<->)-?)>)": the Conditional was entered on cell 0 = 1, its first
\* operation made that cell 0, and its nested Block, its '-' and its override
\* still took effect
C17_Witness ==
    /\ pc = "done"
    /\ Len(blocks) = 1
    /\ Len(blocks[1].items) = 2
    /\ blocks[1].items[2].type = "Block"
    /\ blocks[1].items[2].block.block_type = "conditional"
    /\ Len(blocks[1].items[2].block.items) = 3
    /\ instruction_counter = 3
    /\ tape[0] = 255
    /\ tape[TapeSize - 1] = 1
    /\ pointer = TapeSize - 3

\* the two characters pair occur next to each other in literal
Contains(literal, pair) ==
    \E k \in 1..(Len(literal) - 1) : SubSeq(literal, k, k + 1) = pair

RECURSIVE WellShaped(_)
\* no literal of b, or of a Block nested in b, is empty, follows another
\* literal, or holds its Block's closing marker or an opener
WellShaped(b) ==
    \A k \in 1..Len(b.items) :
        LET item == b.items[k]
        IN  IF item.type = "str"
            THEN /\ item.str # <<>>
                 /\ k > 1 => b.items[k - 1].type = "Block"
                 /\ ~Contains(item.str, IF b.block_type = "normal"
                                        THEN <<">", ")">> ELSE <<"?", ")">>)
                 /\ ~Contains(item.str, <<"(", "<">>)
                 /\ ~Contains(item.str, <<"(", "?">>)
            ELSE /\ item.block.block_type \in {"normal", "conditional"}
                 /\ WellShaped(item.block)

\* C18: in every Block the parser produces no literal is empty, no two
\* literals are adjacent, and no literal holds the closing marker of its Block
\* or an opener '(<' or '(?'.
C18_LiteralsWellShaped ==
    /\ [](\A k \in 1..Len(blocks) : WellShaped(blocks[k]))
    /\ [][pc = "start" =>
            LET stripped == strip_comments(source)
            IN  /\ Len(stripped) >= 0
                /\ \A i \in 0..(Len(stripped) - 1) :
                       LET r == parse_block(stripped, i)
                       IN  r.ok => WellShaped(r.block)]_vars

\* "(<?)>)" was parsed: the literal of the Normal Block is "?)", the closing
\* marker of the other kind
C18_Witness ==
    /\ pc = "run"
    /\ Len(blocks) = 1
    /\ blocks[1].block_type = "normal"
    /\ Len(blocks[1].items) = 1
    /\ blocks[1].items[1].type = "str"
    /\ blocks[1].items[1].str = <<"?", ")">>

RECURSIVE NodesIn(_)
RECURSIVE NodesFrom(_, _)
\* the number of Block nodes of the tree under b, b included
NodesIn(b) == 1 + NodesFrom(b.items, 1)

\* the number of Block nodes under the items from the k-th on
NodesFrom(items, k) ==
    IF k > Len(items) THEN 0
    ELSE (IF items[k].type = "Block" THEN NodesIn(items[k].block) ELSE 0)
             + NodesFrom(items, k + 1)

TotalNodes == NodesFrom([k \in 1..Len(blocks) |-> BlockItem(blocks[k])], 1)

RECURSIVE AheadInFrames(_)
\* the Block nodes the active calls still have before them: the items after
\* the one in progress in each caller, from the current item on in the
\* innermost call
AheadInFrames(k) ==
    IF k > Len(stack) THEN 0
    ELSE NodesFrom(stack[k].block.items,
                   stack[k].item + (IF k < Len(stack) THEN 2 ELSE 1))
             + AheadInFrames(k + 1)

\* the Block nodes not yet reached by an execute_block call
Ahead ==
    NodesFrom([k \in 1..Len(blocks) |-> BlockItem(blocks[k])],
              block_index + (IF stack = <<>> THEN 1 ELSE 2))
        + AheadInFrames(1)

Terminated == pc \in {"done", "parse_error", "runtime_error"}

\* C19: every run terminates, completing or with an error; every
\* execute_block call takes a Block node that was still ahead, so no node is
\* executed twice, and instruction_counter never exceeds the number of calls
\* nor the number of Block nodes of the program.
C19_TerminatesEachBlockOnce ==
    /\ <>Terminated
    /\ [](pc = "run" => visited + Ahead <= TotalNodes)
    /\ [](instruction_counter <= visited /\ visited <= TotalNodes)
    /\ [][pc = "run" =>
            IF visited' # visited
            THEN visited' = visited + 1 /\ Ahead' < Ahead
            ELSE Ahead' = Ahead \/ pc' = "runtime_error"]_vars

\* a run completed having executed every one of at least four Block nodes
C19_Witness ==
    /\ pc = "done"
    /\ TotalNodes >= 4
    /\ instruction_counter = TotalNodes
    /\ visited = TotalNodes

\* C20: a runtime error leaves every active Block, the one holding the
\* failing literal and all that enclose it, uncounted and the pointer unmoved:
\* the failing step changes neither counter, pointer nor tape, nothing follows
\* it, and the counter stays at the number of Blocks that had completed or
\* been skipped, the calls made less the calls still active; what earlier
\* operations wrote is still on the tape.
C20_ErrorLeavesActiveBlocksUncounted ==
    /\ [](pc = "run" => instruction_counter = visited - Len(stack))
    /\ [](pc = "runtime_error" => instruction_counter < visited)
    /\ [][pc' = "runtime_error" =>
            /\ FailingOp
            /\ Len(stack) >= 1
            /\ instruction_counter' = visited - Len(stack)
            /\ UNCHANGED <<instruction_counter, pointer, tape, visited>>]_vars
    /\ [][pc # "runtime_error"]_vars

\* "(<>)(<+(<-.>)>)": one Block had completed; '.' failed in a Block nested in
\* the second, after '+' and '-' of the two active Blocks had made the cell 2
C20_Witness ==
    /\ pc = "runtime_error"
    /\ error.msg = "Display of Dismay error"
    /\ instruction_counter = 1
    /\ visited = 3
    /\ pointer = TapeSize - 1
    /\ tape[pointer] = 2

====
